---- MODULE Spec2Model ----
(***************************************************************************)
(* Model of the user_manager application: the UserManagerRole table        *)
(* (models.py) and the create / delete handlers of the two list views      *)
(* (api/v1/views.py).                                                      *)
(*                                                                         *)
(* A request is one database transaction.  A create request runs in steps  *)
(* (build the link data, save each link, commit) so that requests of       *)
(* different workers can interleave; under Spec one request runs at a      *)
(* time, under SpecConc the steps of two workers interleave.               *)
(***************************************************************************)
EXTENDS Integers, Sequences, FiniteSets, Bags

VARIABLES
    users,   \* ids of the registered auth User rows
    store,   \* committed UserManagerRole rows, as a bag of rows
    txn,     \* per worker: the create request it is handling
    last     \* the response of the step taken last

vars == <<users, store, txn, last>>

-----------------------------------------------------------------------------
(* Bounds *)

\* longest list body of a bulk POST under Spec
MaxItems == 2
\* longest list body of a bulk POST under SpecConc
ConcItems == 1
\* no link is built once the table plus the links in flight reach this size
MaxStore == 2

AllUsers == {1, 2, 3}
\* the accounts of SpecConc
ConcUsers == {1, 2}
Procs == {"w1", "w2"}
P1 == "w1"

-----------------------------------------------------------------------------
(* Users and identifiers.  Strings are sequences of characters.            *)

Letter == <<"a", "b", "c", "d", "e">>

\* Python None, also the absent query parameter
None == <<>>
\* NULL foreign key
NoUser == 0

Username(u) == <<Letter[u]>>
Email(u) == <<Letter[u], "@", "x">>

EmailsOf(U) == {Email(u) : u \in U}
IdentifiersOf(U) == {Username(u) : u \in U} \cup EmailsOf(U)
Emails == EmailsOf(AllUsers)
Identifiers == IdentifiersOf(AllUsers)

\* '@' in identifier
HasAt(s) == \E i \in DOMAIN s : s[i] = "@"

\* User.objects.get(email=e): the set of matches (empty: DoesNotExist)
UserByEmail(us, e) == {u \in us : Email(u) = e}
\* User.objects.get(username=n)
UserByUsername(us, n) == {u \in us : Username(u) = n}

get_user_by_username_or_email(us, identifier) ==
    IF HasAt(identifier) THEN UserByEmail(us, identifier)
    ELSE UserByUsername(us, identifier)

-----------------------------------------------------------------------------
(* UserManagerRole rows *)

Row(u, m, e) == [user |-> u, manager_user |-> m, unregistered_manager_email |-> e]

\* clean without the comparison of user with manager_user
clean_raises_email_only(row) ==
    Email(row.user) = row.unregistered_manager_email

\* UserManagerRole.clean: TRUE when it raises ValidationError
clean_raises(row) ==
    \/ row.user = row.manager_user
    \/ Email(row.user) = row.unregistered_manager_email

\* Model.validate_unique for unique_together: a check is skipped when one of
\* its fields is None; TRUE when a visible row has the same pair
validate_unique_raises(row, visible) ==
    \/ /\ row.manager_user # NoUser
       /\ \E r \in visible : r.user = row.user /\ r.manager_user = row.manager_user
    \/ /\ row.unregistered_manager_email # None
       /\ \E r \in visible : /\ r.user = row.user
                             /\ r.unregistered_manager_email = row.unregistered_manager_email

\* UserManagerRole.save: self.full_clean() raises
full_clean_raises(row, visible) ==
    clean_raises(row) \/ validate_unique_raises(row, visible)

\* a table without the unique indexes
unique_together_absent(row, rows) == FALSE

\* The unique indexes of Meta.unique_together (NULLs are distinct): TRUE when
\* inserting row beside rows breaks one
unique_together_broken(row, rows) ==
    \/ /\ row.manager_user # NoUser
       /\ \E r \in rows : r.user = row.user /\ r.manager_user = row.manager_user
    \/ /\ row.unregistered_manager_email # None
       /\ \E r \in rows : /\ r.user = row.user
                          /\ r.unregistered_manager_email = row.unregistered_manager_email

Range(s) == {s[i] : i \in DOMAIN s}

RECURSIVE SeqToBag(_)
SeqToBag(s) == IF s = <<>> THEN EmptyBag ELSE SetToBag({Head(s)}) (+) SeqToBag(Tail(s))

Rows == BagToSet(store)

-----------------------------------------------------------------------------
(* Query filters *)

\* the filter with the email branch matching manager_user__email only
filter_by_manager_registered_only(qs, identifier) ==
    IF identifier = None THEN qs
    ELSE IF HasAt(identifier)
    THEN {r \in qs : r.manager_user # NoUser /\ Email(r.manager_user) = identifier}
    ELSE {r \in qs : r.manager_user # NoUser /\ Username(r.manager_user) = identifier}

\* _filter_by_manager_id_or_email over a set of rows
filter_by_manager(qs, identifier) ==
    IF identifier = None THEN qs
    ELSE IF HasAt(identifier)
    THEN {r \in qs : \/ r.manager_user # NoUser /\ Email(r.manager_user) = identifier
                     \/ r.unregistered_manager_email = identifier}
    ELSE {r \in qs : r.manager_user # NoUser /\ Username(r.manager_user) = identifier}

\* _filter_by_user_id_or_email over a set of rows
filter_by_user(qs, identifier) ==
    IF identifier = None THEN qs
    ELSE IF HasAt(identifier)
    THEN {r \in qs : Email(r.user) = identifier}
    ELSE {r \in qs : Username(r.user) = identifier}

\* queryset.delete(): the table without the rows of qs
delete_rows(st, qs) ==
    LET keep == {r \in DOMAIN st : r \notin qs}
    IN  [r \in keep |-> st[r]]

-----------------------------------------------------------------------------
(* Building the link data *)

NoData == Row(NoUser, NoUser, None)

Built(kind, data) == [kind |-> kind, data |-> data]

\* process_report keeping the email of a registered manager in
\* unregistered_manager_email as well
process_report_both_fields(us, manager_id, username, email) ==
    LET identifier == IF email # None THEN email ELSE username
    IN  IF identifier = None THEN Built("ValidationError", NoData)
        ELSE LET found == get_user_by_username_or_email(us, identifier)
             IN  IF found = {} THEN Built("NotFound", NoData)
                 ELSE LET user == CHOOSE u \in found : TRUE
                      IN  IF HasAt(manager_id)
                          THEN LET ms == UserByEmail(us, manager_id)
                               IN  IF ms = {}
                                   THEN Built("ok", Row(user, NoUser, manager_id))
                                   ELSE Built("ok", Row(user, CHOOSE m \in ms : TRUE,
                                                        manager_id))
                          ELSE LET ms == UserByUsername(us, manager_id)
                               IN  IF ms = {}
                                   THEN Built("DoesNotExist", NoData)
                                   ELSE Built("ok", Row(user, CHOOSE m \in ms : TRUE, None))

\* process_report falling back to unregistered_manager_email for every
\* manager_id that names no account, a username included
process_report_any_unregistered(us, manager_id, username, email) ==
    LET identifier == IF email # None THEN email ELSE username
    IN  IF identifier = None THEN Built("ValidationError", NoData)
        ELSE LET found == get_user_by_username_or_email(us, identifier)
             IN  IF found = {} THEN Built("NotFound", NoData)
                 ELSE LET user == CHOOSE u \in found : TRUE
                          ms == get_user_by_username_or_email(us, manager_id)
                      IN  IF ms = {}
                          THEN Built("ok", Row(user, NoUser, manager_id))
                          ELSE Built("ok", Row(user, CHOOSE m \in ms : TRUE, None))

\* process_report looking the manager up before the user
process_report_manager_first(us, manager_id, username, email) ==
    LET identifier == IF email # None THEN email ELSE username
        ms == get_user_by_username_or_email(us, manager_id)
    IN  IF identifier = None THEN Built("ValidationError", NoData)
        ELSE IF ~HasAt(manager_id) /\ ms = {} THEN Built("DoesNotExist", NoData)
        ELSE LET found == get_user_by_username_or_email(us, identifier)
             IN  IF found = {} THEN Built("NotFound", NoData)
                 ELSE LET user == CHOOSE u \in found : TRUE
                      IN  IF ms = {}
                          THEN Built("ok", Row(user, NoUser, manager_id))
                          ELSE Built("ok", Row(user, CHOOSE m \in ms : TRUE, None))

\* ManagerReportsListView.process_report
process_report(us, manager_id, username, email) ==
    LET identifier == IF email # None THEN email ELSE username
    IN  IF identifier = None THEN Built("ValidationError", NoData)
        ELSE LET found == get_user_by_username_or_email(us, identifier)
             IN  IF found = {} THEN Built("NotFound", NoData)
                 ELSE LET user == CHOOSE u \in found : TRUE
                      IN  IF HasAt(manager_id)
                          THEN LET ms == UserByEmail(us, manager_id)
                               IN  IF ms = {}
                                   THEN Built("ok", Row(user, NoUser, manager_id))
                                   ELSE Built("ok", Row(user, CHOOSE m \in ms : TRUE, None))
                          ELSE LET ms == UserByUsername(us, manager_id)
                               IN  IF ms = {}
                                   THEN Built("DoesNotExist", NoData)
                                   ELSE Built("ok", Row(user, CHOOSE m \in ms : TRUE, None))

\* UserManagerListView.perform_create up to serializer.save
build_manager_link(us, user_id, manager_email) ==
    LET found == get_user_by_username_or_email(us, user_id)
    IN  IF found = {} THEN Built("NotFound", NoData)
        ELSE LET user == CHOOSE u \in found : TRUE
                 ms == UserByEmail(us, manager_email)
             IN  IF ms = {}
                 THEN Built("ok", Row(user, NoUser, manager_email))
                 ELSE Built("ok", Row(user, CHOOSE m \in ms : TRUE, None))

\* the request bodies the serializers accept
ItemsOf(U) == [username : IdentifiersOf(U) \cup {None}, email : EmailsOf(U) \cup {None}]
Items == ItemsOf(AllUsers)
ManagerEmails == Emails

-----------------------------------------------------------------------------
(* Responses and requests in flight *)

\* op: the handler; status: the HTTP status; error: the exception that ended
\* the request ("" for none); n: items of the body handled; k: entries under
\* `errors`; results: entries created and serialized; discarded: links built
\* or written that the failed request dropped; deleted: rows a DELETE removed;
\* narrowed: the DELETE had its query parameter
Resp(op, status, n, k, results) ==
    [op |-> op, status |-> status, error |-> "", n |-> n, k |-> k,
     results |-> results, discarded |-> 0, deleted |-> 0, narrowed |-> FALSE]

Fail(op, status, error, n, discarded) ==
    [op |-> op, status |-> status, error |-> error, n |-> n, k |-> 0,
     results |-> 0, discarded |-> discarded, deleted |-> 0, narrowed |-> FALSE]

DeleteResp(op, deleted, narrowed) ==
    [op |-> op, status |-> 204, error |-> "", n |-> 0, k |-> 0, results |-> 0,
     discarded |-> 0, deleted |-> deleted, narrowed |-> narrowed]

\* create answering 201 whatever self.errors holds
create_response_always_201(op, n, errors, results) ==
    Resp(op, 201, n, errors, results)

\* BulkCreateMixin.create: 201, or 202 with the `errors` key when self.errors
\* is not empty
create_response(op, n, errors, results) ==
    Resp(op, IF errors > 0 THEN 202 ELSE 201, n, errors, results)

InFlight == Resp("step", 0, 0, 0, 0)

\* status of a validation failure raised while persisting
PersistFailureStatus == 400

\* status of the exception process_report raised
StatusOf(kind) ==
    CASE kind = "ValidationError" -> 400
      [] kind = "NotFound" -> 404
      [] OTHER -> 500

Idle == [pc |-> "idle", op |-> "none", manager_id |-> None, pending |-> <<>>,
         written |-> <<>>, errors |-> 0, n |-> 0]

AllIdle == \A p \in Procs : txn[p] = Idle

RECURSIVE InFlightRows(_)
InFlightRows(ps) ==
    IF ps = {} THEN 0
    ELSE LET p == CHOOSE q \in ps : TRUE
         IN  Len(txn[p].pending) + Len(txn[p].written) + InFlightRows(ps \ {p})

Room == BagCardinality(store) + InFlightRows(Procs) < MaxStore

Init ==
    /\ users = {}
    /\ store = EmptyBag
    /\ txn = [p \in Procs |-> Idle]
    /\ last = Resp("init", 0, 0, 0, 0)

-----------------------------------------------------------------------------
(* Operations *)

\* a new account is registered with the identity subsystem
RegisterUser(u) ==
    /\ u \notin users
    /\ users' = users \cup {u}
    /\ last' = Resp("register", 0, 0, 0, 0)
    /\ UNCHANGED <<store, txn>>

\* permission_classes = (IsAdminUser,): a caller who is no administrator
PermissionDenied ==
    /\ last' = Resp("forbidden", 403, 0, 0, 0)
    /\ UNCHANGED <<users, store, txn>>

\* POST /managers/{manager_id}/reports/ with an object body:
\* BulkCreateMixin.create and perform_create up to serializer.create
ReportsCreateSingle(p, manager_id, item) ==
    /\ txn[p] = Idle
    /\ LET r == process_report(users, manager_id, item.username, item.email)
       IN  IF r.kind = "ok"
           THEN /\ Room
                /\ txn' = [txn EXCEPT ![p] =
                              [pc |-> "saving", op |-> "reports_single",
                               manager_id |-> manager_id, pending |-> <<r.data>>,
                               written |-> <<>>, errors |-> 0, n |-> 1]]
                /\ last' = InFlight
           ELSE /\ txn' = txn
                /\ last' = Fail("reports_single", StatusOf(r.kind), r.kind, 1, 0)
    /\ UNCHANGED <<users, store>>

\* POST /managers/{manager_id}/reports/ with a list body: get_serializer sets
\* bulk_operation, perform_create starts its loop with reports = []
ReportsBulkBegin(p, manager_id) ==
    /\ txn[p] = Idle
    /\ txn' = [txn EXCEPT ![p] =
                  [pc |-> "building", op |-> "reports_bulk", manager_id |-> manager_id,
                   pending |-> <<>>, written |-> <<>>, errors |-> 0, n |-> 0]]
    /\ last' = InFlight
    /\ UNCHANGED <<users, store>>

\* the loop saving each link as soon as it is built
ReportsBulkItem_eager(p, item, limit) ==
    /\ txn[p].pc = "building"
    /\ txn[p].n < limit
    /\ LET t == txn[p]
           r == process_report(users, t.manager_id, item.username, item.email)
       IN  CASE r.kind = "ok" /\ ~full_clean_raises(r.data, Rows) ->
                   /\ Room
                   /\ store' = store (+) SetToBag({r.data})
                   /\ txn' = [txn EXCEPT ![p].n = t.n + 1]
                   /\ last' = InFlight
             [] r.kind = "ok" /\ full_clean_raises(r.data, Rows) ->
                   /\ store' = store
                   /\ txn' = [txn EXCEPT ![p] = Idle]
                   /\ last' = Fail("reports_bulk", PersistFailureStatus,
                                   IF clean_raises(r.data) THEN "own_manager"
                                   ELSE "not_unique", t.n + 1, 0)
             [] r.kind = "NotFound" ->
                   /\ store' = store
                   /\ txn' = [txn EXCEPT ![p].errors = t.errors + 1,
                                         ![p].n = t.n + 1]
                   /\ last' = InFlight
             [] OTHER ->
                   /\ store' = store
                   /\ txn' = [txn EXCEPT ![p] = Idle]
                   /\ last' = Fail("reports_bulk", StatusOf(r.kind), r.kind, t.n + 1, 0)
    /\ UNCHANGED users

\* the loop catching ValidationError per item as it catches NotFound
ReportsBulkItem_tolerant(p, item, limit) ==
    /\ txn[p].pc = "building"
    /\ txn[p].n < limit
    /\ LET t == txn[p]
           r == process_report(users, t.manager_id, item.username, item.email)
       IN  CASE r.kind = "ok" ->
                   /\ Room
                   /\ txn' = [txn EXCEPT ![p].pending = Append(t.pending, r.data),
                                         ![p].n = t.n + 1]
                   /\ last' = InFlight
             [] r.kind \in {"NotFound", "ValidationError"} ->
                   /\ txn' = [txn EXCEPT ![p].errors = t.errors + 1,
                                         ![p].n = t.n + 1]
                   /\ last' = InFlight
             [] OTHER ->
                   /\ txn' = [txn EXCEPT ![p] = Idle]
                   /\ last' = Fail("reports_bulk", StatusOf(r.kind), r.kind, t.n + 1,
                                   Len(t.pending))
    /\ UNCHANGED <<users, store>>

\* one iteration of the loop of perform_create over the list body
ReportsBulkItem(p, item, limit) ==
    /\ txn[p].pc = "building"
    /\ txn[p].n < limit
    /\ LET t == txn[p]
           r == process_report(users, t.manager_id, item.username, item.email)
       IN  CASE r.kind = "ok" ->
                   /\ Room
                   /\ txn' = [txn EXCEPT ![p].pending = Append(t.pending, r.data),
                                         ![p].n = t.n + 1]
                   /\ last' = InFlight
             [] r.kind = "NotFound" ->
                   /\ txn' = [txn EXCEPT ![p].errors = t.errors + 1,
                                         ![p].n = t.n + 1]
                   /\ last' = InFlight
             [] OTHER ->
                   /\ txn' = [txn EXCEPT ![p] = Idle]
                   /\ last' = Fail("reports_bulk", StatusOf(r.kind), r.kind, t.n + 1,
                                   Len(t.pending))
    /\ UNCHANGED <<users, store>>

\* POST /users/{user_id}/managers/: perform_create up to serializer.save
ManagersCreate(p, user_id, manager_email) ==
    /\ txn[p] = Idle
    /\ LET r == build_manager_link(users, user_id, manager_email)
       IN  IF r.kind = "ok"
           THEN /\ Room
                /\ txn' = [txn EXCEPT ![p] =
                              [pc |-> "saving", op |-> "managers_create",
                               manager_id |-> None, pending |-> <<r.data>>,
                               written |-> <<>>, errors |-> 0, n |-> 1]]
                /\ last' = InFlight
           ELSE /\ txn' = txn
                /\ last' = Fail("managers_create", StatusOf(r.kind), r.kind, 1, 0)
    /\ UNCHANGED <<users, store>>

\* UserManagerRole.save of the next link of the batch: full_clean against the
\* committed rows and the rows this request has written, then the insert
\* inside the request's transaction
SaveOne(p) ==
    /\ txn[p].pc \in {"building", "saving"}
    /\ txn[p].pending # <<>>
    /\ LET t == txn[p]
           row == Head(t.pending)
       IN  IF full_clean_raises(row, Rows \cup Range(t.written))
           THEN /\ txn' = [txn EXCEPT ![p] = Idle]
                /\ last' = Fail(t.op, PersistFailureStatus,
                                IF clean_raises(row) THEN "own_manager" ELSE "not_unique",
                                t.n, Len(t.pending) + Len(t.written))
           ELSE /\ txn' = [txn EXCEPT ![p].pc = "saving",
                                      ![p].pending = Tail(t.pending),
                                      ![p].written = Append(t.written, row)]
                /\ last' = InFlight
    /\ UNCHANGED <<users, store>>

\* the unique indexes reject one of the rows written, given the committed rows
RECURSIVE IntegrityError(_, _)
IntegrityError(written, rows) ==
    IF written = <<>> THEN FALSE
    ELSE \/ unique_together_broken(Head(written), rows)
         \/ IntegrityError(Tail(written), rows \cup {Head(written)})

\* the end of the request: the transaction commits the batch or rolls it
\* back, and create() shapes the response
Commit(p) ==
    /\ txn[p].pc \in {"building", "saving"}
    /\ txn[p].pending = <<>>
    /\ LET t == txn[p]
       IN  IF IntegrityError(t.written, Rows)
           THEN /\ store' = store
                /\ last' = Fail(t.op, 500, "IntegrityError", t.n, Len(t.written))
           ELSE /\ store' = store (+) SeqToBag(t.written)
                /\ last' = create_response(t.op, t.n, t.errors, Len(t.written))
    /\ txn' = [txn EXCEPT ![p] = Idle]
    /\ UNCHANGED users

\* the DELETE leaving the `user` query parameter out of the filter
DeleteReports_unnarrowed(manager_id, user) ==
    /\ LET qs == filter_by_manager(Rows, manager_id)
       IN  /\ store' = delete_rows(store, qs)
           /\ last' = DeleteResp("delete_reports", Cardinality(qs), user # None)
    /\ UNCHANGED <<users, txn>>

\* DELETE /managers/{manager_id}/reports/?user={user}
DeleteReports(manager_id, user) ==
    /\ LET qs == filter_by_user(filter_by_manager(Rows, manager_id), user)
       IN  /\ store' = delete_rows(store, qs)
           /\ last' = DeleteResp("delete_reports", Cardinality(qs), user # None)
    /\ UNCHANGED <<users, txn>>

\* the response of a GET: the path identifier and the rows of the queryset
ListResp(op, identifier, rows) ==
    [op |-> op, status |-> 200, error |-> "", n |-> 0, k |-> 0,
     results |-> Cardinality(rows), discarded |-> 0, deleted |-> 0,
     narrowed |-> FALSE, identifier |-> identifier, rows |-> rows]

\* GET /managers/{manager_id}/reports/: get_queryset
ListReports(manager_id) ==
    /\ last' = ListResp("list_reports", manager_id, filter_by_manager(Rows, manager_id))
    /\ UNCHANGED <<users, store, txn>>

\* DELETE /users/{user_id}/managers/?manager={manager}
DeleteManagers(user_id, manager) ==
    /\ LET qs == filter_by_manager(filter_by_user(Rows, user_id), manager)
       IN  /\ store' = delete_rows(store, qs)
           /\ last' = DeleteResp("delete_managers", Cardinality(qs), manager # None)
    /\ UNCHANGED <<users, txn>>

-----------------------------------------------------------------------------
(* Specifications *)

\* one request at a time
Next ==
    \/ \E u \in AllUsers : AllIdle /\ RegisterUser(u)
    \/ AllIdle /\ PermissionDenied
    \/ \E m \in Identifiers, i \in Items : AllIdle /\ ReportsCreateSingle(P1, m, i)
    \/ \E m \in Identifiers : AllIdle /\ ReportsBulkBegin(P1, m)
    \/ \E i \in Items : ReportsBulkItem(P1, i, MaxItems)
    \/ \E id \in Identifiers, e \in ManagerEmails : AllIdle /\ ManagersCreate(P1, id, e)
    \/ SaveOne(P1)
    \/ Commit(P1)
    \/ \E m \in Identifiers, u \in Identifiers \cup {None} : AllIdle /\ DeleteReports(m, u)
    \/ \E id \in Identifiers, m \in Identifiers \cup {None} : AllIdle /\ DeleteManagers(id, m)
    \/ \E m \in Identifiers : AllIdle /\ ListReports(m)

Spec == Init /\ [][Next]_vars

\* the requests of two workers interleave
NextConc ==
    \/ \E u \in ConcUsers : RegisterUser(u)
    \/ \E p \in Procs, m \in IdentifiersOf(ConcUsers), i \in ItemsOf(ConcUsers) :
          ReportsCreateSingle(p, m, i)
    \/ \E p \in Procs, m \in IdentifiersOf(ConcUsers) : ReportsBulkBegin(p, m)
    \/ \E p \in Procs, i \in ItemsOf(ConcUsers) : ReportsBulkItem(p, i, ConcItems)
    \/ \E p \in Procs, id \in IdentifiersOf(ConcUsers), e \in EmailsOf(ConcUsers) :
          ManagersCreate(p, id, e)
    \/ \E p \in Procs : SaveOne(p)
    \/ \E p \in Procs : Commit(p)
    \/ \E m \in IdentifiersOf(ConcUsers), u \in IdentifiersOf(ConcUsers) \cup {None} :
          DeleteReports(m, u)
    \/ \E id \in IdentifiersOf(ConcUsers), m \in IdentifiersOf(ConcUsers) \cup {None} :
          DeleteManagers(id, m)

SpecConc == Init /\ [][NextConc]_vars

-----------------------------------------------------------------------------
(* Properties *)

\* a row whose user is its own manager
SelfManaged(r) ==
    \/ r.user = r.manager_user
    \/ Email(r.user) = r.unregistered_manager_email

\* the request of worker p ends in this step
Ends(p) == txn[p] # Idle /\ txn'[p] = Idle

\* the links the request of worker p has built so far
LinksOf(p) == Range(txn[p].pending) \cup Range(txn[p].written)

\* C1: every persisted row has exactly one of manager_user and
\* unregistered_manager_email set, never both and never neither.
C1_ExactlyOneManagerField ==
    \A r \in Rows :
        (r.manager_user # NoUser) # (r.unregistered_manager_email # None)

\* a created row with a registered manager beside one with an unregistered manager
C1_Witness ==
    /\ last.status = 201
    /\ \E r \in Rows : r.manager_user # NoUser
    /\ \E r \in Rows : r.unregistered_manager_email # None

DuplicatesCommitted(r) ==
    \/ /\ r.manager_user # NoUser
       /\ \E q \in Rows : q.user = r.user /\ q.manager_user = r.manager_user
    \/ /\ r.unregistered_manager_email # None
       /\ \E q \in Rows : /\ q.user = r.user
                          /\ q.unregistered_manager_email = r.unregistered_manager_email

SamePair(r, q) ==
    /\ r.user = q.user
    /\ \/ r.manager_user # NoUser /\ r.manager_user = q.manager_user
       \/ /\ r.unregistered_manager_email # None
          /\ r.unregistered_manager_email = q.unregistered_manager_email

C3_UniquePairs ==
    /\ [](\A r, q \in Rows : SamePair(r, q) => (r = q /\ CopiesIn(r, store) = 1))
    /\ [][\A p \in Procs :
            (Ends(p) /\ \E r \in LinksOf(p) : DuplicatesCommitted(r))
                => (store' = store /\ last'.error # "")]_vars

\* two workers raced for the same pair: one committed, the unique index
\* rejected the other
C3_Witness ==
    /\ last.error = "IntegrityError"
    /\ store # EmptyBag

\* C4: a user never has two rows for the same concrete manager, one by
\* unregistered_manager_email = e and one by a manager_user whose email is e.
C4_OneLinkPerConcreteManager ==
    \A r, q \in Rows :
        (r.user = q.user /\ r.unregistered_manager_email # None /\ q.manager_user # NoUser)
            => Email(q.manager_user) # r.unregistered_manager_email

\* the user of a list item resolves to an account
ItemIdentifier(i) == IF i.email # None THEN i.email ELSE i.username
Resolves(i) ==
    \E u \in users : ItemIdentifier(i) \in {Username(u), Email(u)}

C6_BulkResponse ==
    [][\A p \in Procs :
        /\ \A i \in Items :
              (ReportsBulkItem(p, i, MaxItems) /\ txn'[p] # Idle)
                  => /\ txn'[p].n = txn[p].n + 1
                     /\ txn'[p].errors = txn[p].errors + (IF Resolves(i) THEN 0 ELSE 1)
                     /\ Len(txn'[p].pending) =
                            Len(txn[p].pending) + (IF Resolves(i) THEN 1 ELSE 0)
        /\ (txn[p].op = "reports_bulk" /\ Ends(p) /\ last'.error = "")
              => /\ last'.n = txn[p].n
                 /\ last'.k = txn[p].errors
                 /\ last'.status = (IF last'.k > 0 THEN 202 ELSE 201)
                 /\ last'.results = last'.n - last'.k
                 /\ BagCardinality(store') =
                        BagCardinality(store) + last'.n - last'.k]_vars

\* a list of two answered 202 with one result and one error
C6_Witness ==
    /\ last.op = "reports_bulk"
    /\ last.status = 202
    /\ last.n = 2 /\ last.k = 1 /\ last.results = 1
    /\ store # EmptyBag

\* C7: a list item with neither username nor email ends the whole request
\* with a validation error, whatever its position: nothing is added to
\* `errors`, and no step of the loop persists a row.
C7_MissingIdentifierAborts ==
    [][\A p \in Procs : \A i \in Items :
        ReportsBulkItem(p, i, MaxItems)
            => /\ store' = store
               /\ ItemIdentifier(i) = None
                    => /\ txn'[p] = Idle
                       /\ last'.op = "reports_bulk"
                       /\ last'.status = 400
                       /\ last'.k = 0 /\ last'.results = 0]_vars

\* the item without identifier came second, after an item that built a link
C7_Witness ==
    /\ last.op = "reports_bulk"
    /\ last.error = "ValidationError"
    /\ last.n = 2
    /\ last.discarded = 1

\* C8: for a resolvable user, process_report picks the manager side from
\* manager_id alone: an email of an account gives manager_user, an email of
\* no account gives unregistered_manager_email = manager_id without error, a
\* username of no account raises and gives no link; no row built or
\* persisted holds a username in unregistered_manager_email.
C8_ManagerRepresentation ==
    /\ \A m \in Identifiers : \A i \in Items :
          Resolves(i) =>
            LET r == process_report(users, m, i.username, i.email)
                byEmail == {u \in users : Email(u) = m}
                byName == {u \in users : Username(u) = m}
            IN  /\ (HasAt(m) /\ byEmail # {})
                      => /\ r.kind = "ok"
                         /\ r.data.manager_user \in byEmail
                         /\ r.data.unregistered_manager_email = None
                /\ (HasAt(m) /\ byEmail = {})
                      => /\ r.kind = "ok"
                         /\ r.data.manager_user = NoUser
                         /\ r.data.unregistered_manager_email = m
                /\ (~HasAt(m) /\ byName = {}) => r.kind = "DoesNotExist"
    /\ \A r \in Rows \cup UNION {LinksOf(p) : p \in Procs} :
          r.unregistered_manager_email # None => HasAt(r.unregistered_manager_email)

\* rows of both kinds exist and a username of no account was refused
C8_Witness ==
    /\ last.error = "DoesNotExist"
    /\ \E r \in Rows : r.manager_user # NoUser
    /\ \E r \in Rows : r.unregistered_manager_email # None

\* the step is worker p taking up a single-mode POST to the reports endpoint:
\* it answers it at once or starts saving its link
SingleModeStep(p) ==
    /\ txn[p] = Idle
    /\ \/ txn'[p] = Idle /\ last'.op = "reports_single"
       \/ txn'[p].op = "reports_single"

\* the step answers worker p with 404 and creates nothing
NotFoundAnswer(p) ==
    /\ store' = store
    /\ txn'[p] = Idle
    /\ last'.status = 404

\* C9: a single-mode POST whose user identifier names no account answers
\* 404 and creates nothing, for every manager identifier: a step that is no
\* such answer is no single-mode POST with an unresolvable user.
C9_SingleNotFound ==
    [][\A p \in Procs : SingleModeStep(p) =>
        \/ NotFoundAnswer(p)
        \/ \A i \in Items : (ItemIdentifier(i) # None /\ ~Resolves(i)) =>
              \A m \in Identifiers : ~ReportsCreateSingle(p, m, i)]_vars

\* a single-mode POST was answered 404 while the table held rows
C9_Witness ==
    /\ last.op = "reports_single"
    /\ last.status = 404
    /\ store # EmptyBag

\* the row matches the manager identifier of a DELETE
MatchesManager(r, m) ==
    IF HasAt(m)
    THEN \/ r.manager_user # NoUser /\ Email(r.manager_user) = m
         \/ r.unregistered_manager_email = m
    ELSE r.manager_user # NoUser /\ Username(r.manager_user) = m

\* the row matches the user identifier of a DELETE
MatchesUser(r, u) ==
    IF HasAt(u) THEN Email(r.user) = u ELSE Username(r.user) = u

\* C10: a DELETE removes exactly the rows matching the path identifier and,
\* when given, the query identifier, keeps every other row, and answers 204
\* whether or not a row matched.
C10_DeleteExactlyMatching ==
    [][/\ last'.op = "delete_reports" =>
            \A m \in Identifiers : \A u \in Identifiers \cup {None} :
                DeleteReports(m, u)
                    => /\ \A r \in Rows :
                            CopiesIn(r, store') =
                                IF MatchesManager(r, m) /\ (u = None \/ MatchesUser(r, u))
                                THEN 0 ELSE CopiesIn(r, store)
                       /\ BagToSet(store') \subseteq Rows
                       /\ last'.status = 204
       /\ last'.op = "delete_managers" =>
            \A u \in Identifiers : \A m \in Identifiers \cup {None} :
                DeleteManagers(u, m)
                    => /\ \A r \in Rows :
                            CopiesIn(r, store') =
                                IF MatchesUser(r, u) /\ (m = None \/ MatchesManager(r, m))
                                THEN 0 ELSE CopiesIn(r, store)
                       /\ BagToSet(store') \subseteq Rows
                       /\ last'.status = 204]_vars

\* a narrowed DELETE of a manager's reports removed one row and kept another
C10_Witness ==
    /\ last.op = "delete_reports"
    /\ last.narrowed
    /\ last.deleted = 1
    /\ store # EmptyBag

\* C11: filter_by_manager returns the queryset unchanged for an absent
\* identifier; for an identifier with '@' exactly the rows whose registered
\* manager has that email or whose unregistered_manager_email equals it;
\* otherwise exactly the rows whose registered manager has that username, so
\* never a row with an unregistered manager.  Checked for every queryset
\* over the table and for the rows a GET of a manager's reports returned.
C11_FilterByManager ==
    /\ \A qs \in SUBSET Rows :
          /\ filter_by_manager(qs, None) = qs
          /\ \A id \in Identifiers :
                LET got == filter_by_manager(qs, id)
                IN  /\ HasAt(id) =>
                          got = {r \in qs :
                                   \/ /\ r.manager_user # NoUser
                                      /\ Email(r.manager_user) = id
                                   \/ r.unregistered_manager_email = id}
                    /\ ~HasAt(id) =>
                          /\ got = {r \in qs : /\ r.manager_user # NoUser
                                                /\ Username(r.manager_user) = id}
                          /\ \A r \in got : r.manager_user # NoUser
    /\ last.op = "list_reports" =>
          last.rows = {r \in Rows : MatchesManager(r, last.identifier)}

\* a GET by the manager's username returned the row of the registered
\* manager and left out the row that holds the same manager's email
C11_Witness ==
    /\ last.op = "list_reports"
    /\ ~HasAt(last.identifier)
    /\ last.rows # {}
    /\ \E r \in Rows \ last.rows : \E q \in last.rows :
          r.unregistered_manager_email = Email(q.manager_user)

====
